---- MODULE Spec2Model ----
(***************************************************************************)
(* Model of the document search backend (src/backend/app.py): the upload   *)
(* and search request handlers, the in-memory store documents_db, and the  *)
(* text functions they use (word chunking, sentence splitting, snippet     *)
(* selection, ranking).                                                    *)
(*                                                                         *)
(* Strings are sequences of one-character strings.  File names are         *)
(* sequences of tokens: a letter, a dot, a supported extension, and a      *)
(* character that secure_filename removes.                                 *)
(***************************************************************************)
EXTENDS Integers, Sequences, FiniteSets, TLC

\* ------------------------------------------------------------------ bounds
MaxTextLen == 7      \* longest document text given to the snippet function
MaxSumLen == 5       \* longest text given to the summary function
MaxChunkWords == 2   \* largest small chunk size tried besides 1024
MaxPrefix == 2       \* largest small fallback length tried besides 500
MaxStored == 11      \* most documents in the store a search is ranked over
MaxScore == 1        \* scores and embeddings range over 0..MaxScore

\* -------------------------------------------------------- program constants
max_chunk_size == 1024
fallback_chars == 500
top_sentences == 3
top_results == 10

Chars == {"a", "b", ".", " "}
Placeholder == <<"No text content found">>

Min(S) == CHOOSE x \in S : \A y \in S : x <= y
Max(S) == CHOOSE x \in S : \A y \in S : x >= y

SeqsUpTo(S, n) == UNION {[1..k -> S] : k \in 0..n}

\* -------------------------------------------------------- string functions
\* str.strip(): drop leading and trailing whitespace
strip(s) ==
    LET idx == {i \in 1..Len(s) : s[i] # " "}
    IN  IF idx = {} THEN <<>> ELSE SubSeq(s, Min(idx), Max(idx))

\* str.split(sep): the pieces between separators, empty pieces included
RECURSIVE split_sep(_, _)
split_sep(s, sep) ==
    LET idx == {i \in 1..Len(s) : s[i] = sep}
    IN  IF idx = {} THEN <<s>>
        ELSE <<SubSeq(s, 1, Min(idx) - 1)>>
             \o split_sep(SubSeq(s, Min(idx) + 1, Len(s)), sep)

\* str.split(): the maximal runs of non-whitespace characters
RECURSIVE split_ws(_)
split_ws(s) ==
    LET t == strip(s)
        sp == {i \in 1..Len(t) : t[i] = " "}
    IN  IF t = <<>> THEN <<>>
        ELSE IF sp = {} THEN <<t>>
        ELSE <<SubSeq(t, 1, Min(sp) - 1)>>
             \o split_ws(SubSeq(t, Min(sp) + 1, Len(t)))

\* sep.join(parts)
RECURSIVE join(_, _)
join(parts, sep) ==
    IF parts = <<>> THEN <<>>
    ELSE IF Len(parts) = 1 THEN parts[1]
    ELSE parts[1] \o sep \o join(Tail(parts), sep)

\* s[:n]
Prefix(s, n) == SubSeq(s, 1, IF Len(s) < n THEN Len(s) ELSE n)

\* ------------------------------------------------------------ summarize_text
\* range(0, n, step) as the 1-based start positions
RangeStarts(n, step) == {i \in 1..n : (i - 1) % step = 0}

\* mutant: the last, shorter chunk is dropped
chunk_by_words_dropTail(words, max_words) ==
    [c \in 1..(Len(words) \div max_words) |->
        join(SubSeq(words, (c - 1) * max_words + 1, c * max_words), <<" ">>)]

\* [' '.join(words[i:i+max_words]) for i in range(0, len(words), max_words)]
chunk_by_words(words, max_words) ==
    LET n == Len(words)
        k == Cardinality(RangeStarts(n, max_words))
    IN  [c \in 1..k |->
            join(SubSeq(words, (c - 1) * max_words + 1,
                        IF c * max_words < n THEN c * max_words ELSE n),
                 <<" ">>)]

\* the summarizer's output for a chunk: an opaque text determined by the chunk
summarizer(chunk) == <<"S">> \o chunk

\* mutant: on a failure the summaries made so far are kept in front of the
\* fallback
summarize_with_partial(text, max_words, prefix_len, failing) ==
    IF strip(text) = <<>> THEN <<>>
    ELSE LET chunks == chunk_by_words(split_ws(text), max_words)
             bad == {c \in 1..Len(chunks) : c \in failing}
         IN  IF bad # {}
             THEN join([c \in 1..(Min(bad) - 1) |-> summarizer(chunks[c])]
                       \o <<Prefix(text, prefix_len)>>, <<" ">>)
             ELSE join([c \in 1..Len(chunks) |-> summarizer(chunks[c])], <<" ">>)

\* summarize_text with the chunk size and the fallback length as parameters
\* (1024 and 500 in the source); failing is the set of chunk positions on
\* which the summarizer raises.
summarize_with(text, max_words, prefix_len, failing) ==
    IF strip(text) = <<>> THEN <<>>
    ELSE LET chunks == chunk_by_words(split_ws(text), max_words)
         IN  IF \E c \in 1..Len(chunks) : c \in failing
             THEN Prefix(text, prefix_len)
             ELSE join([c \in 1..Len(chunks) |-> summarizer(chunks[c])], <<" ">>)

summarize_text(text, failing) ==
    summarize_with(text, max_chunk_size, fallback_chars, failing)

\* --------------------------------------------------- snippet (lines 175-186)
RECURSIVE NonEmptyStripped(_)
NonEmptyStripped(parts) ==
    IF parts = <<>> THEN <<>>
    ELSE (IF strip(Head(parts)) # <<>> THEN <<strip(Head(parts))>> ELSE <<>>)
         \o NonEmptyStripped(Tail(parts))

\* [s.strip() for s in full_text.split('.') if s.strip()]
split_sentences(text) == NonEmptyStripped(split_sep(text, "."))

\* the results similarities.argsort(descending=True) can give: the orders of
\* the positions 1..n by descending similarity; equal similarities come in an
\* order the library does not fix
ArgsortDescending(sims) ==
    {p \in [1..Len(sims) -> 1..Len(sims)] :
        /\ \A i, j \in 1..Len(sims) : i # j => p[i] # p[j]
        /\ \A i \in 1..(Len(sims) - 1) : sims[p[i]] >= sims[p[i + 1]]}

\* mutant: one sentence too few
top_indices_short(order) == Prefix(order, top_sentences - 1)

\* argsort(...)[:3]
top_indices(order) == Prefix(order, top_sentences)

\* [sentences[i] for i in top_indices if i < len(sentences)]
relevant_sentences(sentences, order) ==
    IF sentences = <<>> THEN <<Placeholder>>
    ELSE [k \in 1..Len(top_indices(order)) |-> sentences[top_indices(order)[k]]]

\* ' '.join(relevant_sentences)
snippet(text, order) ==
    join(relevant_sentences(split_sentences(text), order), <<" ">>)

\* ------------------------------------------------------ ranking (190-191)
\* list.sort(key=score, reverse=True): stable, so entries of equal score keep
\* their order
\* mutant: an entry goes in front of the entries of equal score
RECURSIVE InsertByScore_unstable(_, _)
InsertByScore_unstable(sorted, e) ==
    IF sorted = <<>> THEN <<e>>
    ELSE IF Head(sorted).score > e.score
         THEN <<Head(sorted)>> \o InsertByScore_unstable(Tail(sorted), e)
         ELSE <<e>> \o sorted

RECURSIVE InsertByScore(_, _)
InsertByScore(sorted, e) ==
    IF sorted = <<>> THEN <<e>>
    ELSE IF Head(sorted).score >= e.score
         THEN <<Head(sorted)>> \o InsertByScore(Tail(sorted), e)
         ELSE <<e>> \o sorted

RECURSIVE sort_by_score(_)
sort_by_score(results) ==
    IF results = <<>> THEN <<>>
    ELSE InsertByScore(sort_by_score(SubSeq(results, 1, Len(results) - 1)),
                       results[Len(results)])

\* results.sort(...); results[:10]
rank(results) == Prefix(sort_by_score(results), top_results)

\* ------------------------------------------------------------- file names
ALLOWED_EXTENSIONS == {<<"pdf">>, <<"docx">>, <<"pptx">>}

\* the batch's file names: empty, no extension, unsupported extension,
\* supported, and two whose stem secure_filename removes entirely
FileNames ==
    {<<>>, <<"a">>, <<"a", ".", "txt">>, <<"a", ".", "pdf">>,
     <<"#", ".", "pdf">>, <<".", "pdf">>}

HasDot(name) == \E i \in 1..Len(name) : name[i] = "."

\* filename.rsplit('.', 1)[1]
rsplit_ext(name) ==
    LET last == Max({i \in 1..Len(name) : name[i] = "."})
    IN  SubSeq(name, last + 1, Len(name))

allowed_file(name) == HasDot(name) /\ rsplit_ext(name) \in ALLOWED_EXTENSIONS

\* werkzeug's secure_filename: characters outside [A-Za-z0-9_.-] are dropped,
\* then dots are stripped from both ends
secure_filename(name) ==
    LET kept == SelectSeq(name, LAMBDA c : c # "#")
        idx == {i \in 1..Len(kept) : kept[i] # "."}
    IN  IF idx = {} THEN <<>> ELSE SubSeq(kept, Min(idx), Max(idx))

\* -------------------------------------------------------- process_document
\* the embedding model: a fixed function of the text
encode(text) ==
    LET n == Cardinality({i \in 1..Len(text) : text[i] = "a"})
    IN  IF n > MaxScore THEN MaxScore ELSE n

\* util.pytorch_cos_sim of two embeddings: highest for equal embeddings
cos_sim(x, y) == IF x >= y THEN MaxScore - (x - y) ELSE MaxScore - (y - x)

\* extract_text: content is what the format library reads from the file, <<>>
\* when it raises (line 70-72); a name without a dot raises IndexError at
\* line 53, outside the try
extract_text(filename, content) ==
    IF ~HasDot(filename) THEN [kind |-> "IndexError"]
    ELSE IF rsplit_ext(filename) \in ALLOWED_EXTENSIONS
         THEN [kind |-> "text", text |-> content]
         ELSE [kind |-> "text", text |-> <<>>]

NewDocument(filename, full_text, summary, embeddings) ==
    [filename |-> filename, full_text |-> full_text,
     summary |-> summary, embeddings |-> embeddings]

\* mutant: the check for empty text is missing
process_document_keepEmpty(filename, content, failing, embed_ok) ==
    LET ex == extract_text(filename, content)
    IN  IF ex.kind = "IndexError" THEN [kind |-> "IndexError"]
        ELSE IF ~embed_ok THEN [kind |-> "None"]
        ELSE [kind |-> "doc",
              doc |-> NewDocument(filename, ex.text,
                                  summarize_text(ex.text, failing),
                                  encode(ex.text))]

\* process_document: failing is the set of chunks the summarizer raises on,
\* embed_ok is FALSE when embedding_model.encode raises
process_document(filename, content, failing, embed_ok) ==
    LET ex == extract_text(filename, content)
    IN  IF ex.kind = "IndexError" THEN [kind |-> "IndexError"]
        ELSE IF ex.text = <<>> THEN [kind |-> "None"]
        ELSE IF ~embed_ok THEN [kind |-> "None"]
        ELSE [kind |-> "doc",
              doc |-> NewDocument(filename, ex.text,
                                  summarize_text(ex.text, failing),
                                  encode(ex.text))]

\* ==================================================================== state
Uploaders == {"u1", "u2"}
Searchers == {"s1"}

MaxUploads == 2      \* files taken from upload requests, all requests together
MaxQueryLen == 1     \* longest query string

\* what the format libraries read from the uploaded files: nothing, blank
\* text, one sentence
Contents == {<<>>, <<" ">>, <<"a", ".">>}
Queries == SeqsUpTo({" ", "a"}, MaxQueryLen)

VARIABLES
    documents_db,  \* the store in insertion order: <<[id, doc], ...>>
    uuids,         \* number of uuid4() calls made
    upc,           \* uploader -> "idle", "loop", "insert", "done"
    ufiles,        \* uploader -> names of the request's files taken so far
    cur,           \* uploader -> [id, doc] of the file being handled
    uresults,      \* uploader -> the results list
    uresp,         \* uploader -> the response sent
    spc,           \* searcher -> "start", "encode", "next", "sort", "done"
    request,       \* searcher -> the request's query string
    it,            \* searcher -> the dict iterator [used, pos]
    sresults,      \* searcher -> the results list
    sresp,         \* searcher -> the response sent
    exc,           \* searcher -> the exception caught at line 193
    encodes,       \* searcher -> calls made to embedding_model.encode
    arg,           \* input of the function harnesses
    res            \* output of the function harnesses

vars == <<documents_db, uuids, upc, ufiles, cur, uresults, uresp, spc, request,
          it, sresults, sresp, exc, encodes, arg, res>>

upload_vars == <<upc, ufiles, cur, uresults, uresp, uuids>>
search_vars == <<spc, request, it, sresults, sresp, exc, encodes>>
harness_vars == <<arg, res>>

NoCur == [id |-> 0]
NoIter == [used |-> 0, pos |-> 0]

MainInit ==
    /\ documents_db = <<>>
    /\ uuids = 0
    /\ upc = [u \in Uploaders |-> "idle"]
    /\ ufiles = [u \in Uploaders |-> <<>>]
    /\ cur = [u \in Uploaders |-> NoCur]
    /\ uresults = [u \in Uploaders |-> <<>>]
    /\ uresp = [u \in Uploaders |-> "none"]
    /\ spc = [s \in Searchers |-> "start"]
    /\ request = [s \in Searchers |-> <<>>]
    /\ it = [s \in Searchers |-> NoIter]
    /\ sresults = [s \in Searchers |-> <<>>]
    /\ sresp = [s \in Searchers |-> "none"]
    /\ exc = [s \in Searchers |-> "none"]
    /\ encodes = [s \in Searchers |-> 0]

NotRun == [done |-> FALSE]

Init == MainInit /\ arg = NotRun /\ res = NotRun

\* ------------------------------------------------------------- the store
Keys(db) == {db[i].id : i \in 1..Len(db)}

\* documents_db[key] = doc: a new key is appended, an existing key keeps its
\* place and gets the new value
DictSet(db, key, doc) ==
    IF key \in Keys(db)
    THEN [i \in 1..Len(db) |->
            IF db[i].id = key THEN [id |-> key, doc |-> doc] ELSE db[i]]
    ELSE Append(db, [id |-> key, doc |-> doc])

\* mutant: every file gets the same identifier
uuid4_reused(n) == 1

\* str(uuid.uuid4()) as the n-th identifier issued: identifiers are opaque and
\* distinct
uuid4(n) == n

FilesTaken == Len(ufiles["u1"]) + Len(ufiles["u2"])

\* ============================================================ upload_files
\* lines 119-120: the request has no 'files' part
UploadNoFiles(u) ==
    /\ upc[u] = "idle"
    /\ upc' = [upc EXCEPT ![u] = "done"]
    /\ uresp' = [uresp EXCEPT ![u] = "No files provided"]
    /\ UNCHANGED <<documents_db, uuids, ufiles, cur, uresults>>
    /\ UNCHANGED <<search_vars, harness_vars>>

\* lines 122-123
UploadBegin(u) ==
    /\ upc[u] = "idle"
    /\ upc' = [upc EXCEPT ![u] = "loop"]
    /\ UNCHANGED <<documents_db, uuids, ufiles, cur, uresults, uresp>>
    /\ UNCHANGED <<search_vars, harness_vars>>

\* lines 125-129: a file with an empty name or an unsupported extension is
\* passed over without a result entry
UploadSkip(u) ==
    /\ upc[u] = "loop"
    /\ FilesTaken < MaxUploads
    /\ \E name \in FileNames :
        /\ name = <<>> \/ ~allowed_file(name)
        /\ ufiles' = [ufiles EXCEPT ![u] = Append(@, name)]
    /\ UNCHANGED <<documents_db, uuids, upc, cur, uresults, uresp>>
    /\ UNCHANGED <<search_vars, harness_vars>>

ErrorEntry(filename) ==
    [filename |-> filename, status |-> "error",
     message |-> "Could not process file"]

ProcessedEntry(id, doc) ==
    [id |-> id, filename |-> doc.filename, status |-> "processed",
     summary |-> doc.summary]

\* lines 129-135 and 144-151: a file with a supported extension is saved and
\* processed; IndexError from extract_text is not caught and ends the request
UploadFile(u) ==
    /\ upc[u] = "loop"
    /\ FilesTaken < MaxUploads
    /\ \E name \in FileNames, content \in Contents,
          failing \in SUBSET {1}, embed_ok \in BOOLEAN :
        /\ name # <<>> /\ allowed_file(name)
        /\ LET filename == secure_filename(name)
               file_id == uuid4(uuids + 1)
               pd == process_document(filename, content, failing, embed_ok)
           IN  /\ ufiles' = [ufiles EXCEPT ![u] = Append(@, name)]
               /\ uuids' = uuids + 1
               /\ IF pd.kind = "IndexError"
                  THEN /\ upc' = [upc EXCEPT ![u] = "done"]
                       /\ uresp' = [uresp EXCEPT ![u] = "500"]
                       /\ UNCHANGED <<cur, uresults>>
                  ELSE IF pd.kind = "None"
                  THEN /\ uresults' = [uresults EXCEPT
                                         ![u] = Append(@, ErrorEntry(filename))]
                       /\ UNCHANGED <<upc, uresp, cur>>
                  ELSE /\ cur' = [cur EXCEPT
                                    ![u] = [id |-> file_id, doc |-> pd.doc]]
                       /\ upc' = [upc EXCEPT ![u] = "insert"]
                       /\ UNCHANGED <<uresults, uresp>>
    /\ UNCHANGED documents_db
    /\ UNCHANGED <<search_vars, harness_vars>>

\* lines 137-143 and 151
UploadInsert(u) ==
    /\ upc[u] = "insert"
    /\ documents_db' = DictSet(documents_db, cur[u].id, cur[u].doc)
    /\ uresults' = [uresults EXCEPT
                      ![u] = Append(@, ProcessedEntry(cur[u].id, cur[u].doc))]
    /\ cur' = [cur EXCEPT ![u] = NoCur]
    /\ upc' = [upc EXCEPT ![u] = "loop"]
    /\ UNCHANGED <<uuids, ufiles, uresp>>
    /\ UNCHANGED <<search_vars, harness_vars>>

\* line 153
UploadReturn(u) ==
    /\ upc[u] = "loop"
    /\ upc' = [upc EXCEPT ![u] = "done"]
    /\ uresp' = [uresp EXCEPT ![u] = "results"]
    /\ UNCHANGED <<documents_db, uuids, ufiles, cur, uresults>>
    /\ UNCHANGED <<search_vars, harness_vars>>

\* ========================================================= search_documents
\* mutant: the query is embedded before the preconditions are checked
SearchCheck_encodeFirst(s) ==
    /\ spc[s] = "start"
    /\ \E q \in Queries :
        /\ request' = [request EXCEPT ![s] = q]
        /\ encodes' = [encodes EXCEPT ![s] = @ + 1]
        /\ IF strip(q) = <<>>
           THEN /\ sresp' = [sresp EXCEPT ![s] = "Empty query"]
                /\ spc' = [spc EXCEPT ![s] = "done"]
           ELSE IF documents_db = <<>>
           THEN /\ sresp' = [sresp EXCEPT ![s] = "No documents processed"]
                /\ spc' = [spc EXCEPT ![s] = "done"]
           ELSE /\ spc' = [spc EXCEPT ![s] = "encode"]
                /\ UNCHANGED sresp
    /\ UNCHANGED <<it, sresults, exc>>
    /\ UNCHANGED <<documents_db, upload_vars, harness_vars>>

\* lines 158-165: the two precondition checks
SearchCheck(s) ==
    /\ spc[s] = "start"
    /\ \E q \in Queries :
        /\ request' = [request EXCEPT ![s] = q]
        /\ IF strip(q) = <<>>
           THEN /\ sresp' = [sresp EXCEPT ![s] = "Empty query"]
                /\ spc' = [spc EXCEPT ![s] = "done"]
           ELSE IF documents_db = <<>>
           THEN /\ sresp' = [sresp EXCEPT ![s] = "No documents processed"]
                /\ spc' = [spc EXCEPT ![s] = "done"]
           ELSE /\ spc' = [spc EXCEPT ![s] = "encode"]
                /\ UNCHANGED sresp
    /\ UNCHANGED <<it, sresults, exc, encodes>>
    /\ UNCHANGED <<documents_db, upload_vars, harness_vars>>

\* lines 193-195
SearchFailed(s, e) ==
    /\ exc' = [exc EXCEPT ![s] = e]
    /\ sresp' = [sresp EXCEPT ![s] = "Search failed"]
    /\ spc' = [spc EXCEPT ![s] = "done"]

\* lines 168-171: the query is embedded, then the iteration over
\* documents_db.items() starts; the iterator remembers the dict's size
SearchEncode(s) ==
    /\ spc[s] = "encode"
    /\ encodes' = [encodes EXCEPT ![s] = @ + 1]
    /\ \/ /\ SearchFailed(s, "EncodeError")
          /\ UNCHANGED it
       \/ /\ it' = [it EXCEPT ![s] = [used |-> Len(documents_db), pos |-> 0]]
          /\ spc' = [spc EXCEPT ![s] = "next"]
          /\ UNCHANGED <<sresp, exc>>
    /\ UNCHANGED <<request, sresults>>
    /\ UNCHANGED <<documents_db, upload_vars, harness_vars>>

\* the similarities of the sentences to the query (lines 177-178)
sentence_sims(q_emb, sentences) ==
    [i \in 1..Len(sentences) |-> cos_sim(q_emb, encode(sentences[i]))]

ResultEntry(q_emb, doc, order) ==
    [file |-> doc.filename,
     content |-> snippet(doc.full_text, order),
     score |-> cos_sim(q_emb, doc.embeddings)]

\* lines 171-188: one step of the loop. A dict iterator raises RuntimeError
\* when the dict's size differs from the size it remembers.
SearchNext(s) ==
    /\ spc[s] = "next"
    /\ IF Len(documents_db) # it[s].used
       THEN /\ SearchFailed(s, "RuntimeError")
            /\ UNCHANGED <<it, sresults, encodes>>
       ELSE IF it[s].pos = Len(documents_db)
       THEN /\ spc' = [spc EXCEPT ![s] = "sort"]
            /\ UNCHANGED <<it, sresults, sresp, exc, encodes>>
       ELSE LET doc == documents_db[it[s].pos + 1].doc
                q_emb == encode(strip(request[s]))
                sentences == split_sentences(doc.full_text)
            IN  /\ it' = [it EXCEPT ![s].pos = @ + 1]
                /\ encodes' = [encodes EXCEPT
                                 ![s] = IF sentences = <<>> THEN @ ELSE @ + 1]
                /\ \/ /\ sentences # <<>>
                      /\ SearchFailed(s, "EncodeError")
                      /\ UNCHANGED sresults
                   \/ /\ \E order \in ArgsortDescending(
                                         sentence_sims(q_emb, sentences)) :
                            sresults' = [sresults EXCEPT
                               ![s] = Append(@, ResultEntry(q_emb, doc, order))]
                      /\ UNCHANGED <<spc, sresp, exc>>
    /\ UNCHANGED request
    /\ UNCHANGED <<documents_db, upload_vars, harness_vars>>

\* lines 190-191
SearchReturn(s) ==
    /\ spc[s] = "sort"
    /\ sresults' = [sresults EXCEPT ![s] = rank(@)]
    /\ sresp' = [sresp EXCEPT ![s] = "ok"]
    /\ spc' = [spc EXCEPT ![s] = "done"]
    /\ UNCHANGED <<request, it, exc, encodes>>
    /\ UNCHANGED <<documents_db, upload_vars, harness_vars>>

Next ==
    \/ \E u \in Uploaders :
        \/ UploadNoFiles(u)
        \/ UploadBegin(u)
        \/ UploadSkip(u)
        \/ UploadFile(u)
        \/ UploadInsert(u)
        \/ UploadReturn(u)
    \/ \E s \in Searchers :
        \/ SearchCheck(s)
        \/ SearchEncode(s)
        \/ SearchNext(s)
        \/ SearchReturn(s)

Spec == Init /\ [][Next]_vars

\* ===================================================== summarize_text alone
\* The chunk size and the fallback length are 1024 and 500 in the source; the
\* function is also run with small values of both, so that texts of a few
\* words have several chunks and are longer than the fallback.
ChunkSizes == (1..MaxChunkWords) \cup {max_chunk_size}
PrefixLens == (1..MaxPrefix) \cup {fallback_chars}
SumTexts == SeqsUpTo({"a", "b", " "}, MaxSumLen)
MaxWordsOf(len) == (len + 1) \div 2

InitSummarize ==
    /\ MainInit
    /\ arg \in [text : SumTexts, max_words : ChunkSizes,
                prefix_len : PrefixLens,
                failing : SUBSET (1..MaxWordsOf(MaxSumLen))]
    /\ res = NotRun

\* summarize_text on arg, and process_document on a file with that text
Summarize ==
    /\ ~res.done
    /\ res' = [done |-> TRUE,
               chunks |-> chunk_by_words(split_ws(arg.text), arg.max_words),
               summary |-> summarize_with(arg.text, arg.max_words,
                                          arg.prefix_len, arg.failing),
               processed |-> process_document(<<"a", ".", "pdf">>, arg.text,
                                              arg.failing, TRUE)]
    /\ UNCHANGED <<documents_db, upload_vars, search_vars, arg>>

NextSummarize == Summarize

SpecSummarize == InitSummarize /\ [][NextSummarize]_vars

\* ============================================================ snippet alone
InitSnippet ==
    /\ MainInit
    /\ arg \in [text : SeqsUpTo(Chars, MaxTextLen), q_emb : 0..MaxScore]
    /\ res = NotRun

\* lines 175-186 on a document with text arg.text, for a query embedded as
\* arg.q_emb
Snippet ==
    /\ ~res.done
    /\ \E order \in ArgsortDescending(
                       sentence_sims(arg.q_emb, split_sentences(arg.text))) :
        res' = [done |-> TRUE, order |-> order,
                content |-> snippet(arg.text, order)]
    /\ UNCHANGED <<documents_db, upload_vars, search_vars, arg>>

NextSnippet == Snippet

SpecSnippet == InitSnippet /\ [][NextSnippet]_vars

\* ============================================= search over a populated store
\* The store as earlier uploads left it: the i-th document inserted has a name
\* of i letters, a text of one sentence, and the summary and embedding
\* process_document gives that text.
StoredName(i) == [k \in 1..i |-> "a"] \o <<".", "pdf">>

StoredDocument(i, text) ==
    [id |-> uuid4(i),
     doc |-> process_document(StoredName(i), text, {}, TRUE).doc]

InitRank ==
    /\ \E n \in 0..MaxStored :
         \E texts \in [1..n -> {<<"a">>, <<"b">>}] :
            /\ documents_db = [i \in 1..n |-> StoredDocument(i, texts[i])]
            /\ uuids = n
    /\ upc = [u \in Uploaders |-> "idle"]
    /\ ufiles = [u \in Uploaders |-> <<>>]
    /\ cur = [u \in Uploaders |-> NoCur]
    /\ uresults = [u \in Uploaders |-> <<>>]
    /\ uresp = [u \in Uploaders |-> "none"]
    /\ spc = [s \in Searchers |-> "start"]
    /\ request = [s \in Searchers |-> <<>>]
    /\ it = [s \in Searchers |-> NoIter]
    /\ sresults = [s \in Searchers |-> <<>>]
    /\ sresp = [s \in Searchers |-> "none"]
    /\ exc = [s \in Searchers |-> "none"]
    /\ encodes = [s \in Searchers |-> 0]
    /\ arg = NotRun
    /\ res = NotRun

NextRank ==
    \E s \in Searchers :
        \/ SearchCheck(s)
        \/ SearchEncode(s)
        \/ SearchNext(s)
        \/ SearchReturn(s)

SpecRank == InitRank /\ [][NextRank]_vars

\* ================================================================== claims
IsBlank(q) == \A i \in 1..Len(q) : q[i] = " "

RECURSIVE Flatten(_)
Flatten(seqs) == IF seqs = <<>> THEN <<>> ELSE Head(seqs) \o Flatten(Tail(seqs))

RECURSIVE Ascending(_)
Ascending(S) == IF S = {} THEN <<>> ELSE <<Min(S)>> \o Ascending(S \ {Min(S)})

Injections(k, n) ==
    {f \in [1..k -> 1..n] : \A i, j \in 1..k : i # j => f[i] # f[j]}

IsSubstring(x, t) ==
    \E i \in 0..(Len(t) - Len(x)) : SubSeq(t, i + 1, i + Len(x)) = x

Range(f) == {f[i] : i \in DOMAIN f}

\* ----------------------------------------------------------------------- C1
\* C1: a search whose query is empty or blank answers "Empty query"; a search
\* with a non-blank query that finds the store empty answers "No documents
\* processed" (and only such a search does); a search that ended in one of the
\* two errors has made no call to the embedding model and has no result entry.
C1_PreconditionErrors ==
    /\ [](\A s \in Searchers :
            /\ (spc[s] # "start" /\ IsBlank(request[s]))
                  => sresp[s] = "Empty query"
            /\ sresp[s] = "Empty query" => IsBlank(request[s])
            /\ sresp[s] \in {"Empty query", "No documents processed"}
                  => encodes[s] = 0 /\ sresults[s] = <<>> /\ spc[s] = "done")
    /\ [][\A s \in Searchers :
            (spc[s] = "start" /\ spc'[s] # "start")
               => ((sresp'[s] = "No documents processed")
                     <=> (~IsBlank(request'[s]) /\ documents_db = <<>>))]_vars

\* a blank query is refused while the store holds a document
C1_Witness ==
    \E s \in Searchers :
        /\ sresp[s] = "Empty query"
        /\ request[s] = <<" ">>
        /\ documents_db # <<>>

\* ----------------------------------------------------------------------- C2
AllowedNames(names) == SelectSeq(names, LAMBDA n : n # <<>> /\ allowed_file(n))

\* C2: when an upload request with files has been answered, the answer is the
\* results list, which has one entry per file with a supported extension, in
\* upload order, each 'processed' or 'error', and every 'processed' entry's
\* document is in the store under the entry's id.
C2_OneEntryPerFile ==
    \A u \in Uploaders :
        (upc[u] = "done" /\ uresp[u] # "No files provided") =>
            /\ uresp[u] = "results"
            /\ Len(uresults[u]) = Len(AllowedNames(ufiles[u]))
            /\ \A k \in 1..Len(uresults[u]) :
                /\ uresults[u][k].filename
                      = secure_filename(AllowedNames(ufiles[u])[k])
                /\ uresults[u][k].status \in {"processed", "error"}
                /\ uresults[u][k].status = "processed" =>
                      \E i \in 1..Len(documents_db) :
                          /\ documents_db[i].id = uresults[u][k].id
                          /\ documents_db[i].doc.filename
                                = uresults[u][k].filename
                          /\ documents_db[i].doc.summary
                                = uresults[u][k].summary

\* ----------------------------------------------------------------------- C3
Processed(results) == SelectSeq(results, LAMBDA e : e.status = "processed")

\* C3: every record of the store has a non-empty full_text and an embedding,
\* and the store holds exactly one record per file reported (or about to be
\* reported) 'processed': a file that ends in an 'error' entry adds none.
C3_StoredRecordsValid ==
    /\ \A i \in 1..Len(documents_db) :
        /\ documents_db[i].doc.full_text # <<>>
        /\ "embeddings" \in DOMAIN documents_db[i].doc
        /\ documents_db[i].doc.embeddings \in 0..MaxScore
    /\ Len(documents_db)
          = Len(Processed(uresults["u1"])) + Len(Processed(uresults["u2"]))

\* a batch with an 'error' entry followed by a stored file
C3_Witness ==
    \E u \in Uploaders :
        /\ Len(uresults[u]) = 2
        /\ uresults[u][1].status = "error"
        /\ uresults[u][2].status = "processed"
        /\ Len(documents_db) = 1

\* ----------------------------------------------------------------------- C7
\* C7: a search never ends in the error a dict iterator raises when a record
\* is inserted during its iteration.
C7_SnapshotIteration ==
    \A s \in Searchers : exc[s] # "RuntimeError"

\* ----------------------------------------------------------------------- C8
DocumentFields == {"filename", "full_text", "summary", "embeddings"}

\* C8: every record in the store has all four fields; a step that changes the
\* store appends one record under an id no record has, and leaves every
\* record already there as it was.
C8_AppendOnly ==
    /\ [](\A i \in 1..Len(documents_db) :
             DOMAIN documents_db[i].doc = DocumentFields)
    /\ [][documents_db' # documents_db =>
            /\ Len(documents_db') = Len(documents_db) + 1
            /\ SubSeq(documents_db', 1, Len(documents_db)) = documents_db
            /\ documents_db'[Len(documents_db')].id \notin Keys(documents_db)]_vars

\* one upload has stored its record while the other is between processing its
\* file and storing it
C8_Witness ==
    /\ Len(documents_db) = 1
    /\ upc["u1"] = "insert"
    /\ Len(Processed(uresults["u2"])) = 1

\* ----------------------------------------------------------------------- C4
Selected(order) == Range(top_indices(order))

\* C4: the content of a document with sentences is its selected sentences
\* joined by single spaces in ascending sentence position.
C4_DocumentOrder ==
    (res.done /\ split_sentences(arg.text) # <<>>) =>
        LET sentences == split_sentences(arg.text)
            positions == Ascending(Selected(res.order))
        IN  res.content
              = join([k \in 1..Len(positions) |-> sentences[positions[k]]],
                     <<" ">>)

\* ---------------------------------------------------------------------- C10
\* a non-empty string without a dot or a space at either end that occurs in
\* the text
IsSentenceOf(x, text) ==
    /\ x # <<>>
    /\ x[1] # " " /\ x[Len(x)] # " "
    /\ \A i \in 1..Len(x) : x[i] # "."
    /\ IsSubstring(x, text)

\* C10: with n the number of sentences of the document, each sentence is a
\* non-empty trimmed dot-free piece of the text; the content is the
\* placeholder when n = 0 and otherwise min(3, n) different sentences joined
\* by single spaces; it is never empty; a non-blank text without a dot gives
\* the trimmed text itself.
C10_SnippetSize ==
    res.done =>
        LET sentences == split_sentences(arg.text)
            n == Len(sentences)
            k == IF n < 3 THEN n ELSE 3
        IN  /\ \A i \in 1..n : IsSentenceOf(sentences[i], arg.text)
            /\ n = 0 => res.content = Placeholder
            /\ n > 0 =>
                 \E sel \in Injections(k, n) :
                    res.content
                      = join([j \in 1..k |-> sentences[sel[j]]], <<" ">>)
            /\ res.content # <<>>
            /\ (~IsBlank(arg.text) /\ \A i \in 1..Len(arg.text) : arg.text[i] # ".")
                 => /\ n = 1
                    /\ res.content = strip(arg.text)

\* a document of four sentences, of which three are returned
C10_Witness ==
    /\ res.done
    /\ Len(split_sentences(arg.text)) = 4
    /\ Len(res.order) = 4
    /\ Cardinality(Selected(res.order)) = 3

\* ----------------------------------------------------------------------- C6
Hit(chunks, failing) == \E c \in 1..Len(chunks) : c \in failing

ExpectedSummary(text, chunks, prefix_len, failing) ==
    IF Hit(chunks, failing)
    THEN [i \in 1..(IF Len(text) < prefix_len THEN Len(text) ELSE prefix_len)
            |-> text[i]]
    ELSE join([c \in 1..Len(chunks) |-> summarizer(chunks[c])], <<" ">>)

\* C6: if the summarizer raises on any chunk the summary is the first
\* prefix_len characters of the text, otherwise it is the chunks' summaries in
\* chunk order joined by single spaces; either way process_document returns a
\* record for a non-empty text whose embedding succeeds, with the summary
\* summarize_text gives with chunk size 1024 and fallback length 500.
C6_SummaryFallback ==
    res.done =>
        /\ res.summary
             = ExpectedSummary(arg.text, res.chunks, arg.prefix_len, arg.failing)
        /\ arg.text # <<>> =>
             /\ res.processed.kind = "doc"
             /\ res.processed.doc.summary
                  = ExpectedSummary(arg.text,
                        chunk_by_words(split_ws(arg.text), 1024), 500,
                        arg.failing)

\* the summarizer succeeds on the first of three chunks and raises on the
\* second, and the text is longer than the fallback
C6_Witness ==
    /\ res.done
    /\ Len(res.chunks) = 3
    /\ 1 \notin arg.failing /\ 2 \in arg.failing
    /\ Len(arg.text) > arg.prefix_len
    /\ res.summary = SubSeq(arg.text, 1, arg.prefix_len)
    /\ res.processed.kind = "doc"

\* ----------------------------------------------------------------------- C9
\* C9: the chunks' words, chunk after chunk, are the words of the text; every
\* chunk has between 1 and max_words words; there are ceil(words / max_words)
\* chunks, none for a text without words.
C9_Chunking ==
    res.done =>
        LET words == split_ws(arg.text)
            m == arg.max_words
        IN  /\ Flatten([c \in 1..Len(res.chunks) |-> split_ws(res.chunks[c])])
                 = words
            /\ \A c \in 1..Len(res.chunks) :
                 /\ Len(split_ws(res.chunks[c])) >= 1
                 /\ Len(split_ws(res.chunks[c])) <= m
            /\ Len(res.chunks) = (Len(words) + m - 1) \div m
            /\ words = <<>> => res.chunks = <<>>

\* three words in chunks of two: a full chunk and a shorter last one
C9_Witness ==
    /\ res.done
    /\ Len(split_ws(arg.text)) = 3
    /\ arg.max_words = 2
    /\ Len(res.chunks) = 2

\* ----------------------------------------------------------------------- C5
Position(file) ==
    CHOOSE i \in 1..Len(documents_db) : documents_db[i].doc.filename = file

DocScore(s, i) ==
    cos_sim(encode(strip(request[s])), documents_db[i].doc.embeddings)

\* C5: a successful search returns min(10, store size) entries, each the entry
\* of a different stored document with that document's score; an entry comes
\* before another if its score is higher, or equal and its document was
\* inserted earlier; no document left out scores higher than one returned.
C5_Ranked ==
    \A s \in Searchers :
        sresp[s] = "ok" =>
            LET r == sresults[s]
                n == Len(documents_db)
            IN  /\ Len(r) = (IF n < 10 THEN n ELSE 10)
                /\ \A k \in 1..Len(r) :
                     /\ \E i \in 1..n : documents_db[i].doc.filename = r[k].file
                     /\ r[k].score = DocScore(s, Position(r[k].file))
                /\ \A k, l \in 1..Len(r) :
                     k < l =>
                        \/ r[k].score > r[l].score
                        \/ /\ r[k].score = r[l].score
                           /\ Position(r[k].file) < Position(r[l].file)
                /\ \A i \in 1..n :
                     (\A k \in 1..Len(r) : Position(r[k].file) # i) =>
                        \A k \in 1..Len(r) : DocScore(s, i) <= r[k].score

\* eleven documents, ten returned, with equal scores among them and a
\* document ranked above one inserted before it
C5_Witness ==
    \E s \in Searchers :
        /\ sresp[s] = "ok"
        /\ Len(documents_db) = 11
        /\ Len(sresults[s]) = 10
        /\ \E k \in 1..9 : sresults[s][k].score = sresults[s][k + 1].score
        /\ \E k \in 1..9 :
             Position(sresults[s][k].file) > Position(sresults[s][k + 1].file)

====
